---- MODULE Spec2Model ----
(***************************************************************************)
(* Model of the environment-abstracted training and serving pipeline of    *)
(* pm-risk: the configuration resolver (src/config.py), the training       *)
(* entry point (src/train_configured.py), the serving handler              *)
(* (src/inference_configured.py) and the local dashboard (app/app.py).     *)
(*                                                                         *)
(* Representation.                                                         *)
(*  - Probabilities and thresholds are counted in tenths (0.5 is 5, 0.7   *)
(*    is 7) and F1 scores in 1/100000.  Comparisons of floats become       *)
(*    comparisons of these integers.                                       *)
(*  - A Python exception is the name of its class; IsInstance gives the    *)
(*    subclass relation the except clauses and the callers see.            *)
(*  - A JSON value is a record [kind, n, s]; a call result is a record     *)
(*    with ok = TRUE and the returned value, or ok = FALSE and err.        *)
(***************************************************************************)
EXTENDS Integers, Sequences, FiniteSets, TLC

VARIABLES
    fs,        \* configuration files on disk: path -> file content
    environ,   \* os.environ: variable name -> [set, val]
    last,      \* the latest call of a configuration function, with its result
    outdir,    \* the output / model directory: model.joblib and metrics.txt
    model,     \* the model object cached by the serving process
    attached,  \* history: the model object as model_fn returned it
    req,       \* the request the serving process is handling, and its stage
    nreq,      \* requests received by the serving process
    nrej,      \* requests input_fn rejected
    ui,        \* the dashboard process (app/app.py)
    args,      \* the command line of the training run: args.config
    datafs,    \* the training data on disk: path -> file or directory
    pc,        \* the statement of main() the training run is at
    tr,        \* the local variables of main()
    out0       \* history: the output directory when the run started

vars == <<fs, environ, last, outdir, model, attached, req, nreq, nrej, ui,
          args, datafs, pc, tr, out0>>

(***************************************************************************)
(* Exceptions                                                              *)
(***************************************************************************)

\* JSONDecodeError subclasses ValueError; FileNotFoundError subclasses
\* OSError, and EnvironmentError is an alias of OSError.
IsInstance(err, cls) ==
    \/ err = cls
    \/ cls = "Exception"
    \/ err = "JSONDecodeError" /\ cls = "ValueError"
    \/ err \in {"FileNotFoundError", "OSError", "EnvironmentError"}
         /\ cls \in {"OSError", "EnvironmentError"}

\* The classes the code raises for the error names of the documentation.
ConfigError == "ValueError"
UnsupportedRequestError == "ValueError"
DataNotFoundError == "FileNotFoundError"
SchemaError == "KeyError"

(***************************************************************************)
(* JSON values and configuration documents                                 *)
(***************************************************************************)

JNum(n) == [kind |-> "num", n |-> n, s |-> ""]
JStr(s) == [kind |-> "str", n |-> 0, s |-> s]
JNull   == [kind |-> "null", n |-> 0, s |-> ""]

\* A key of a mapping: present with a string value, or missing.
NoKey      == [has |-> FALSE, s |-> ""]
Key(s)     == [has |-> TRUE, s |-> s]

\* The "inference" entry of a document: missing, a mapping (with or without
\* a "threshold" entry), or a value that is no mapping.
NoInference      == [kind |-> "missing", has_threshold |-> FALSE, threshold |-> JNull]
EmptyInference   == [kind |-> "object", has_threshold |-> FALSE, threshold |-> JNull]
Inference(v)     == [kind |-> "object", has_threshold |-> TRUE, threshold |-> v]
ScalarInference  == [kind |-> "scalar", has_threshold |-> FALSE, threshold |-> JNull]

\* The "local" section (data_path, out_dir) and the "sagemaker" section
\* (train_channel, model_dir: the NAMES of two environment variables).
NoLocal     == [has |-> FALSE, data_path |-> "", out_dir |-> ""]
Local(d, o) == [has |-> TRUE, data_path |-> d, out_dir |-> o]
NoSage      == [has |-> FALSE, train_channel |-> "", model_dir |-> ""]
Sage(t, m)  == [has |-> TRUE, train_channel |-> t, model_dir |-> m]

Doc(mode, loc, sm, inf) ==
    [mode |-> mode, local |-> loc, sagemaker |-> sm, inference |-> inf]

NoDoc == Doc(NoKey, NoLocal, NoSage, NoInference)

\* What open() and json.load() find at a path: no file, a file that is no
\* JSON, a JSON array, or a JSON object.
Absent      == [kind |-> "absent", doc |-> NoDoc]
Garbage     == [kind |-> "garbage", doc |-> NoDoc]
ArrayFile   == [kind |-> "array", doc |-> NoDoc]
ObjectFile(d) == [kind |-> "object", doc |-> d]

Unset    == [set |-> FALSE, val |-> ""]
SetTo(v) == [set |-> TRUE, val |-> v]

\* os.environ.get(name): None (here Unset) for a name that is not set.
EnvGet(env, name) == IF name \in DOMAIN env THEN env[name] ELSE Unset

\* Python truthiness of os.environ.get(name): set and not empty.
Truthy(v) == v.set /\ v.val # ""

\* str.lower() on the words the model writes in MODE.
Lower(s) ==
    CASE s = "LOCAL"     -> "local"
      [] s = "Local"     -> "local"
      [] s = "SAGEMAKER" -> "sagemaker"
      [] s = "SageMaker" -> "sagemaker"
      [] s = "Prod"      -> "prod"
      [] OTHER           -> s

\* float(x) on a JSON value: a number is itself, a string is parsed
\* (ValueError when it is no number), null is a TypeError.
FloatOf(v) ==
    CASE v.kind = "num"  -> [ok |-> TRUE, err |-> "", v |-> v.n]
      [] v.kind = "null" -> [ok |-> FALSE, err |-> "TypeError", v |-> 0]
      [] v.kind = "str"  ->
           CASE v.s = "0.7" -> [ok |-> TRUE, err |-> "", v |-> 7]
             [] v.s = "0.3" -> [ok |-> TRUE, err |-> "", v |-> 3]
             [] OTHER       -> [ok |-> FALSE, err |-> "ValueError", v |-> 0]

(***************************************************************************)
(* src/config.py                                                           *)
(***************************************************************************)

DEFAULT_CONFIG_PATH == "src/config.json"

\* The default of cfg.get("inference", {}).get("threshold", 0.5), in tenths.
DefaultThreshold == 5

ReadFile(files, path) == IF path \in DOMAIN files THEN files[path] ELSE Absent

\* path = config_path or os.environ.get("APP_CONFIG_PATH", DEFAULT_CONFIG_PATH)
ConfigPathOf(config_path, env) ==
    IF Truthy(config_path) THEN config_path.val
    ELSE IF EnvGet(env, "APP_CONFIG_PATH").set
         THEN EnvGet(env, "APP_CONFIG_PATH").val
         ELSE DEFAULT_CONFIG_PATH

LoadOk(cfg)    == [ok |-> TRUE, err |-> "", cfg |-> cfg]
LoadRaise(err) == [ok |-> FALSE, err |-> err, cfg |-> NoDoc]

\* Mutant: the override is stored as written.
WithModeOverrideAsWritten(doc, env) ==
    IF Truthy(EnvGet(env, "MODE"))
    THEN [doc EXCEPT !.mode = Key(EnvGet(env, "MODE").val)]
    ELSE doc

\* The document after the MODE override: cfg["mode"] = env_mode.lower()
\* when MODE is set and not empty.
WithModeOverride(doc, env) ==
    IF Truthy(EnvGet(env, "MODE"))
    THEN [doc EXCEPT !.mode = Key(Lower(EnvGet(env, "MODE").val))]
    ELSE doc

\* Mutant: any mode that is present passes the check.
ModeIsRecognizedLax(mode) == mode.has

\* cfg.get("mode") in ("local", "sagemaker")
ModeIsRecognized(mode) == mode.has /\ mode.s \in {"local", "sagemaker"}

load_config(config_path, files, env) ==
    LET file == ReadFile(files, ConfigPathOf(config_path, env))
        cfg  == WithModeOverride(file.doc, env)
    IN  CASE file.kind = "absent"  -> LoadRaise("FileNotFoundError")
          [] file.kind = "garbage" -> LoadRaise("JSONDecodeError")
          [] file.kind = "array"   ->
               \* a list has no item "mode" to assign and no .get
               IF Truthy(EnvGet(env, "MODE")) THEN LoadRaise("TypeError")
               ELSE LoadRaise("AttributeError")
          [] OTHER ->
               IF ~ModeIsRecognized(cfg.mode) THEN LoadRaise("ValueError")
               ELSE LoadOk(cfg)

PathsOk(d, o)   == [ok |-> TRUE, err |-> "", data_path |-> d, out_dir |-> o]
PathsRaise(err) == [ok |-> FALSE, err |-> err, data_path |-> Unset, out_dir |-> Unset]

\* Mutant: "and" where the code has "or".
MissingEnvBoth(data_path, out_dir) == ~Truthy(data_path) /\ ~Truthy(out_dir)

\* if not data_path or not out_dir
MissingEnv(data_path, out_dir) == ~Truthy(data_path) \/ ~Truthy(out_dir)

\* Mutant: the platform variables are required in every mode.
resolve_paths_needs_env(cfg, env) ==
    IF ~cfg.mode.has THEN PathsRaise("KeyError")
    ELSE IF ~cfg.sagemaker.has THEN PathsRaise("KeyError")
    ELSE LET data_path == EnvGet(env, cfg.sagemaker.train_channel)
             out_dir   == EnvGet(env, cfg.sagemaker.model_dir)
         IN  IF MissingEnv(data_path, out_dir) THEN PathsRaise("EnvironmentError")
             ELSE IF cfg.mode.s # "local" THEN PathsOk(data_path, out_dir)
             ELSE IF ~cfg.local.has THEN PathsRaise("KeyError")
             ELSE PathsOk(SetTo(cfg.local.data_path), SetTo(cfg.local.out_dir))

resolve_paths(cfg, env) ==
    IF ~cfg.mode.has THEN PathsRaise("KeyError")
    ELSE IF cfg.mode.s = "local"
    THEN IF ~cfg.local.has THEN PathsRaise("KeyError")
         ELSE PathsOk(SetTo(cfg.local.data_path), SetTo(cfg.local.out_dir))
    ELSE IF ~cfg.sagemaker.has THEN PathsRaise("KeyError")
         ELSE LET data_path == EnvGet(env, cfg.sagemaker.train_channel)
                  out_dir   == EnvGet(env, cfg.sagemaker.model_dir)
              IN  IF MissingEnv(data_path, out_dir)
                  THEN PathsRaise("EnvironmentError")
                  ELSE PathsOk(data_path, out_dir)

ThrOk(v)      == [ok |-> TRUE, err |-> "", v |-> v]
ThrRaise(err) == [ok |-> FALSE, err |-> err, v |-> 0]

\* Mutant: cfg["inference"]["threshold"], without the defaults of .get.
threshold_nodefault(cfg) ==
    CASE cfg.inference.kind = "missing" -> ThrRaise("KeyError")
      [] cfg.inference.kind = "scalar"  -> ThrRaise("TypeError")
      [] OTHER ->
           IF ~cfg.inference.has_threshold THEN ThrRaise("KeyError")
           ELSE FloatOf(cfg.inference.threshold)

threshold(cfg) ==
    CASE cfg.inference.kind = "missing" -> ThrOk(DefaultThreshold)
      [] cfg.inference.kind = "scalar"  -> ThrRaise("AttributeError")
      [] OTHER ->
           IF ~cfg.inference.has_threshold THEN ThrOk(DefaultThreshold)
           ELSE FloatOf(cfg.inference.threshold)

(***************************************************************************)
(* The output directory                                                    *)
(***************************************************************************)

\* model.joblib: absent, a truncated file, or a dumped pipeline (its
\* classifier, and the training run that wrote it: 0 is an earlier run).
NoModelFile          == [kind |-> "absent", clf |-> "", run |-> 0]
PartialModelFile(r)  == [kind |-> "partial", clf |-> "", run |-> r]
PipelineFile(clf, r) == [kind |-> "pipeline", clf |-> clf, run |-> r]

\* metrics.txt: absent, a truncated file, or the three lines of the report.
NoMetricsFile == [kind |-> "absent", logreg_f1 |-> 0, xgboost_f1 |-> 0, best |-> "", run |-> 0]
PartialMetricsFile(r) ==
    [kind |-> "partial", logreg_f1 |-> 0, xgboost_f1 |-> 0, best |-> "", run |-> r]
MetricsFile(lr, xgb, best, r) ==
    [kind |-> "report", logreg_f1 |-> lr, xgboost_f1 |-> xgb, best |-> best, run |-> r]

NoOutDir    == [exists |-> FALSE, model |-> NoModelFile, metrics |-> NoMetricsFile]
OutDir(m, r) == [exists |-> TRUE, model |-> m, metrics |-> r]

(***************************************************************************)
(* src/inference_configured.py                                             *)
(***************************************************************************)

\* The threshold model_fn attaches when load_config or threshold raised.
FallbackThreshold == 5

\* getattr(model, '_decision_threshold', 0.5)
PredictDefaultThreshold == 5

NotLoaded == [loaded |-> FALSE, clf |-> "", run |-> 0,
              has_threshold |-> FALSE, threshold |-> 0]

ModelOk(m)      == [ok |-> TRUE, err |-> "", model |-> m]
ModelRaise(err) == [ok |-> FALSE, err |-> err, model |-> NotLoaded]

\* joblib.load(os.path.join(model_dir, 'model.joblib')): the pipeline as it
\* was dumped, with no threshold attribute.
joblib_load(dir) ==
    CASE ~dir.exists \/ dir.model.kind = "absent" -> ModelRaise("FileNotFoundError")
      [] dir.model.kind = "partial"               -> ModelRaise("EOFError")
      [] OTHER -> ModelOk([loaded |-> TRUE, clf |-> dir.model.clf, run |-> dir.model.run,
                           has_threshold |-> FALSE, threshold |-> 0])

\* Mutant: model_fn without the try/except around the configuration.
model_fn_nocatch(dir, files, env) ==
    LET m == joblib_load(dir)
        c == load_config(Unset, files, env)
        t == threshold(c.cfg)
    IN  IF ~m.ok THEN m
        ELSE IF ~c.ok THEN ModelRaise(c.err)
        ELSE IF ~t.ok THEN ModelRaise(t.err)
        ELSE ModelOk([m.model EXCEPT !.has_threshold = TRUE, !.threshold = t.v])

\* Mutant: the configuration is never read; 0.5 is attached.
model_fn_fixed(dir, files, env) ==
    LET m == joblib_load(dir)
    IN  IF ~m.ok THEN m
        ELSE ModelOk([m.model EXCEPT !.has_threshold = TRUE,
                                     !.threshold = FallbackThreshold])

model_fn(dir, files, env) ==
    LET m == joblib_load(dir)
        c == load_config(Unset, files, env)
        t == threshold(c.cfg)
    IN  IF ~m.ok THEN m
        ELSE ModelOk([m.model EXCEPT
                 !.has_threshold = TRUE,
                 !.threshold = IF c.ok /\ t.ok THEN t.v ELSE FallbackThreshold])

\* A request body: text that is no JSON, a JSON array, a JSON scalar (a
\* string, a number, null) or a JSON object.  The "features" entry of an
\* object: missing, a mapping, a list (of numbers, or holding a value numpy
\* cannot convert), or another value.  x identifies the feature values by
\* the probability the classifier gives them, in tenths.
NoFeatures     == [kind |-> "missing", x |-> 0, numeric |-> FALSE]
DictFeatures(x) == [kind |-> "dict", x |-> x, numeric |-> FALSE]
ListFeatures(x) == [kind |-> "list", x |-> x, numeric |-> TRUE]
TextListFeatures == [kind |-> "list", x |-> 0, numeric |-> FALSE]
ScalarFeatures == [kind |-> "scalar", x |-> 0, numeric |-> FALSE]

GarbageBody   == [kind |-> "garbage", features |-> NoFeatures]
ArrayBody     == [kind |-> "array", features |-> NoFeatures]
ScalarBody    == [kind |-> "scalar", features |-> NoFeatures]
ObjectBody(f) == [kind |-> "object", features |-> f]

\* What input_fn returns: a one-row DataFrame or a one-row float array.
NoData       == [form |-> "none", x |-> 0]
DataFrame(x) == [form |-> "frame", x |-> x]
NdArray(x)   == [form |-> "array", x |-> x]

InputOk(d)      == [ok |-> TRUE, err |-> "", data |-> d]
InputRaise(err) == [ok |-> FALSE, err |-> err, data |-> NoData]

input_fn(request_body, request_content_type) ==
    IF request_content_type # "application/json" THEN InputRaise("ValueError")
    ELSE CASE request_body.kind = "garbage" -> InputRaise("JSONDecodeError")
           \* payload.get on a list, a str, a number or None
           [] request_body.kind \in {"array", "scalar"} -> InputRaise("AttributeError")
           [] OTHER ->
                LET feats == request_body.features
                IN  CASE feats.kind = "dict" -> InputOk(DataFrame(feats.x))
                      [] feats.kind = "list" ->
                           \* np.array([feats], dtype=float)
                           IF feats.numeric THEN InputOk(NdArray(feats.x))
                           ELSE InputRaise("ValueError")
                      [] OTHER -> InputRaise("ValueError")

\* model.predict_proba(input_data)[0, 1]
predict_proba(m, input_data) == input_data.x

NoResult == [prediction |-> 0, proba |-> 0, threshold |-> 0]

\* Mutant: a strict comparison.
predict_fn_strict(input_data, m) ==
    LET proba == predict_proba(m, input_data)
        thr   == IF m.has_threshold THEN m.threshold ELSE PredictDefaultThreshold
    IN  [prediction |-> IF proba > thr THEN 1 ELSE 0, proba |-> proba, threshold |-> thr]

predict_fn(input_data, m) ==
    LET proba == predict_proba(m, input_data)
        thr   == IF m.has_threshold THEN m.threshold ELSE PredictDefaultThreshold
    IN  [prediction |-> IF proba >= thr THEN 1 ELSE 0, proba |-> proba, threshold |-> thr]

\* json.dumps(prediction): the text is kept as the object it encodes.
output_fn(prediction, content_type) == prediction

(***************************************************************************)
(* src/train_configured.py                                                 *)
(***************************************************************************)

\* What is at a data path: nothing, a CSV file (with or without the
\* is_late column), or a directory of files.  A file of a directory has a
\* name, given by its rank in lexicographic order, and an extension.
MissingPath   == [kind |-> "missing", has_label |-> FALSE, files |-> {}]
CsvFile(lbl)  == [kind |-> "file", has_label |-> lbl, files |-> {}]
Directory(fl) == [kind |-> "dir", has_label |-> FALSE, files |-> fl]
DirEntry(rank, ext, lbl) == [rank |-> rank, ext |-> ext, has_label |-> lbl]

\* The table pd.read_csv returned: the file it came from.
NoTable == [source |-> "", has_label |-> FALSE]

DataAt(data, path) == IF path \in DOMAIN data THEN data[path] ELSE MissingPath

CsvOk(t)      == [ok |-> TRUE, err |-> "", table |-> t]
CsvRaise(err) == [ok |-> FALSE, err |-> err, table |-> NoTable]

\* glob.glob(os.path.join(path_or_dir, '*.csv'))
Candidates(entry) == {f \in entry.files : f.ext = "csv"}

\* Mutant: the last of the sorted names.
LastOf(cands) == CHOOSE f \in cands : \A g \in cands : f.rank >= g.rank

\* sorted(candidates)[0]
FirstOf(cands) == CHOOSE f \in cands : \A g \in cands : f.rank <= g.rank

\* Mutant: the label column is not taken out of the table.
load_csv_unchecked(path_or_dir, data) ==
    LET entry == DataAt(data, path_or_dir)
    IN  CASE entry.kind = "dir" ->
               IF Candidates(entry) = {} THEN CsvRaise("FileNotFoundError")
               ELSE LET f == FirstOf(Candidates(entry))
                    IN  CsvOk([source |-> "file" \o ToString(f.rank),
                               has_label |-> f.has_label])
          [] entry.kind = "missing" -> CsvRaise("FileNotFoundError")
          [] OTHER ->
               CsvOk([source |-> path_or_dir, has_label |-> entry.has_label])

load_csv(path_or_dir, data) ==
    LET entry == DataAt(data, path_or_dir)
    IN  CASE entry.kind = "dir" ->
               IF Candidates(entry) = {} THEN CsvRaise("FileNotFoundError")
               ELSE LET f == FirstOf(Candidates(entry))
                    IN  IF ~f.has_label THEN CsvRaise("KeyError")
                        ELSE CsvOk([source |-> "file" \o ToString(f.rank),
                                    has_label |-> TRUE])
          [] entry.kind = "missing" -> CsvRaise("FileNotFoundError")
          [] OTHER ->
               IF ~entry.has_label THEN CsvRaise("KeyError")
               ELSE CsvOk([source |-> path_or_dir, has_label |-> TRUE])

\* Mutant: a tie goes to the baseline.
select_best_strict(f1_lr, f1_xgb) == IF f1_xgb > f1_lr THEN "xgb" ELSE "lr"

\* best = xgb if f1_xgb >= f1_lr else lr
select_best(f1_lr, f1_xgb) == IF f1_xgb >= f1_lr THEN "xgb" ELSE "lr"

\* Mutant: the report breaks a tie the other way.
best_name_strict(f1_lr, f1_xgb) == IF f1_xgb > f1_lr THEN "xgboost" ELSE "logreg"

\* "xgboost" if f1_xgb >= f1_lr else "logreg"
best_name(f1_lr, f1_xgb) == IF f1_xgb >= f1_lr THEN "xgboost" ELSE "logreg"

\* f'{f1:.4f}': an F1 score, counted in 1/100000, rounded to 1/10000.
format4(f1) == (f1 + 5) \div 10

(***************************************************************************)
(* app/app.py                                                              *)
(***************************************************************************)

\* pred = int(proba >= 0.5)
DashboardThreshold == 5

\* The label the dashboard writes for a probability.
dashboard_pred(proba, thr) == IF proba >= DashboardThreshold THEN 1 ELSE 0

(***************************************************************************)
(* The state: what is on disk and in the environment, and the processes    *)
(* before they start                                                       *)
(***************************************************************************)

ALT_CONFIG_PATH == "alt/config.json"

LocalStd == Local("data/projects.csv", "model_artifacts")
SageStd  == Sage("SM_CHANNEL_TRAIN", "SM_MODEL_DIR")

\* The document the explicit path points at.
AltDoc == Doc(Key("local"), Local("alt/data.csv", "alt/out"), NoSage, Inference(JNum(7)))

ConfigPathArgs == {Unset, SetTo(ALT_CONFIG_PATH)}

Environ(mode, app, channel, dir) ==
    [n \in {"MODE", "APP_CONFIG_PATH", "SM_CHANNEL_TRAIN", "SM_MODEL_DIR"} |->
        CASE n = "MODE"             -> mode
          [] n = "APP_CONFIG_PATH"  -> app
          [] n = "SM_CHANNEL_TRAIN" -> channel
          [] OTHER                  -> dir]

ConfigFs(f) ==
    [p \in {DEFAULT_CONFIG_PATH, ALT_CONFIG_PATH} |->
        IF p = DEFAULT_CONFIG_PATH THEN f ELSE ObjectFile(AltDoc)]

NoCall ==
    [fn |-> "none", config_path |-> Unset, cfg |-> NoDoc,
     load |-> LoadRaise(""), paths |-> PathsRaise(""), thr |-> ThrRaise("")]

serveVars == <<model, attached, req, nreq, nrej, ui>>

trainVars == <<args, datafs, pc, tr, out0>>

NoRequest(stage) ==
    [stage |-> stage, content_type |-> "", body |-> GarbageBody, data |-> NoData,
     err |-> "", result |-> NoResult, response |-> NoResult]

UiOff == [stage |-> "off", has_model |-> FALSE, thr |-> 0, proba |-> 0, pred |-> 0]

NoRun ==
    [cfg |-> NoDoc, data_path |-> "", out_dir |-> "", table |-> NoTable,
     f1_lr |-> 0, f1_xgb |-> 0, best |-> "", failed_at |-> "", err |-> ""]

\* No training run in this behaviour.
TrainingOff ==
    /\ args = [config |-> Unset]
    /\ datafs = [p \in {} |-> MissingPath]
    /\ pc = "off"
    /\ tr = NoRun
    /\ out0 = outdir

ServingOff ==
    /\ model = NotLoaded
    /\ attached = NotLoaded
    /\ req = NoRequest("down")
    /\ nreq = 0
    /\ nrej = 0
    /\ ui = UiOff

(***************************************************************************)
(* The serving process (the four handlers, called in order for each        *)
(* request by the hosting runtime) and the dashboard process               *)
(***************************************************************************)

\* Requests one serving process receives.
MaxRequests == 3

\* The F1 scores a run can measure, in 1/100000: two that differ only in
\* the fifth decimal.
F1Values == {66666, 66667}

Probs == 0..10

ContentTypes == {"application/json", "text/plain"}

RequestBodies ==
    {GarbageBody, ArrayBody, ScalarBody}
    \cup {ObjectBody(f) : f \in {NoFeatures, ScalarFeatures, TextListFeatures}}
    \cup {ObjectBody(DictFeatures(x)) : x \in Probs}
    \cup {ObjectBody(ListFeatures(x)) : x \in Probs}

\* The runtime starts the serving process: model_fn(model_dir).
ModelFn ==
    /\ req.stage = "down"
    /\ ui.stage = "off"
    /\ pc \in {"off", "done", "failed"}
    /\ LET r == model_fn(outdir, fs, environ)
       IN  /\ model' = r.model
           /\ attached' = r.model
           /\ req' = IF r.ok THEN NoRequest("idle")
                     ELSE [NoRequest("load_failed") EXCEPT !.err = r.err]
    /\ UNCHANGED <<fs, environ, last, outdir, nreq, nrej, ui, trainVars>>

\* Mutant: a rejected request strips the threshold from the cached model.
InputFnDropsThreshold ==
    /\ req.stage \in {"idle", "rejected", "responded"}
    /\ nreq < MaxRequests
    /\ \E ct \in ContentTypes, body \in RequestBodies :
         LET r == input_fn(body, ct)
         IN  /\ req' = [NoRequest(IF r.ok THEN "parsed" ELSE "rejected") EXCEPT
                          !.content_type = ct, !.body = body,
                          !.data = r.data, !.err = r.err]
             /\ nrej' = IF r.ok THEN nrej ELSE nrej + 1
             /\ model' = IF r.ok THEN model ELSE [model EXCEPT !.has_threshold = FALSE]
    /\ nreq' = nreq + 1
    /\ UNCHANGED <<fs, environ, last, outdir, attached, ui, trainVars>>

\* A request arrives: input_fn(request_body, request_content_type).
InputFn ==
    /\ req.stage \in {"idle", "rejected", "responded"}
    /\ nreq < MaxRequests
    /\ \E ct \in ContentTypes, body \in RequestBodies :
         LET r == input_fn(body, ct)
         IN  /\ req' = [NoRequest(IF r.ok THEN "parsed" ELSE "rejected") EXCEPT
                          !.content_type = ct, !.body = body,
                          !.data = r.data, !.err = r.err]
             /\ nrej' = IF r.ok THEN nrej ELSE nrej + 1
    /\ nreq' = nreq + 1
    /\ UNCHANGED <<fs, environ, last, outdir, model, attached, ui, trainVars>>

\* Mutant: predicting resets the cached model's threshold to the default.
PredictFnResetsThreshold ==
    /\ req.stage = "parsed"
    /\ req' = [req EXCEPT !.stage = "predicted", !.result = predict_fn(req.data, model)]
    /\ model' = [model EXCEPT !.threshold = PredictDefaultThreshold]
    /\ UNCHANGED <<fs, environ, last, outdir, attached, nreq, nrej, ui, trainVars>>

\* predict_fn(input_data, model) on what input_fn returned.
PredictFn ==
    /\ req.stage = "parsed"
    /\ req' = [req EXCEPT !.stage = "predicted", !.result = predict_fn(req.data, model)]
    /\ UNCHANGED <<fs, environ, last, outdir, model, attached, nreq, nrej, ui, trainVars>>

\* output_fn(prediction, content_type), for whatever type the client accepts.
OutputFn ==
    /\ req.stage = "predicted"
    /\ \E accept \in ContentTypes :
         req' = [req EXCEPT !.stage = "responded",
                            !.response = output_fn(req.result, accept)]
    /\ UNCHANGED <<fs, environ, last, outdir, model, attached, nreq, nrej, ui, trainVars>>

\* The dashboard script runs: load_model() (None when there is no
\* model.joblib), then cfg = load_config(); thr = threshold(cfg), neither
\* of them guarded.
DashboardStart ==
    /\ ui.stage = "off"
    /\ req.stage = "down"
    /\ LET present == outdir.exists /\ outdir.model.kind # "absent"
           m == joblib_load(outdir)
           c == load_config(Unset, fs, environ)
           t == threshold(c.cfg)
       IN  ui' = IF (present /\ ~m.ok) \/ ~c.ok \/ ~t.ok
                 THEN [UiOff EXCEPT !.stage = "crashed"]
                 ELSE [UiOff EXCEPT !.stage = "ready", !.has_model = present,
                                    !.thr = t.v]
    /\ UNCHANGED <<fs, environ, last, outdir, model, attached, req, nreq, nrej, trainVars>>

\* The form is submitted: proba = model.predict_proba(df)[0,1], then the
\* label.
DashboardPredict ==
    /\ ui.stage \in {"ready", "shown"}
    /\ ui.has_model
    /\ \E x \in Probs :
         ui' = [ui EXCEPT !.stage = "shown",
                          !.proba = predict_proba(joblib_load(outdir).model, DataFrame(x)),
                          !.pred = dashboard_pred(
                              predict_proba(joblib_load(outdir).model, DataFrame(x)),
                              ui.thr)]
    /\ UNCHANGED <<fs, environ, last, outdir, model, attached, req, nreq, nrej, trainVars>>

ServeDocs ==
    {Doc(m, LocalStd, SageStd, i) :
        m \in {Key("local"), Key("prod")},
        i \in {NoInference, Inference(JNum(3)), Inference(JNum(7)),
               Inference(JStr("high"))}}

ServeFiles == {Absent, Garbage, ArrayFile} \cup {ObjectFile(d) : d \in ServeDocs}

OldMetrics == MetricsFile(6, 8, "xgboost", 0)

InitServe ==
    /\ \E f \in ServeFiles : fs = ConfigFs(f)
    /\ \E m \in {Unset, SetTo("SAGEMAKER")}, a \in ConfigPathArgs :
         environ = Environ(m, a, SetTo("/opt/ml/input/data/train"), SetTo("/opt/ml/model"))
    /\ outdir \in {NoOutDir, OutDir(PartialModelFile(0), NoMetricsFile),
                   OutDir(PipelineFile("xgb", 0), OldMetrics)}
    /\ last = NoCall
    /\ ServingOff
    /\ TrainingOff

NextServe ==
    ModelFn \/ InputFn \/ PredictFn \/ OutputFn \/ DashboardStart \/ DashboardPredict

SpecServe == InitServe /\ [][NextServe]_vars

(***************************************************************************)
(* One training run followed by serving: SpecPipeline                      *)
(*                                                                         *)
(* main() runs statement by statement; a library or file-system call that  *)
(* can raise either returns or raises.  The serving process is started on  *)
(* the output directory once the run has ended.                            *)
(***************************************************************************)

Fail(step, err) ==
    /\ pc' = "failed"
    /\ tr' = [tr EXCEPT !.failed_at = step, !.err = err]

\* cfg = load_config(args.config)
TrainLoadConfig ==
    /\ pc = "load_config"
    /\ LET r == load_config(args.config, fs, environ)
       IN  IF r.ok THEN pc' = "resolve_paths" /\ tr' = [tr EXCEPT !.cfg = r.cfg]
           ELSE Fail("load_config", r.err)
    /\ UNCHANGED <<fs, environ, last, outdir, serveVars, args, datafs, out0>>

\* data_path, out_dir = resolve_paths(cfg)
TrainResolvePaths ==
    /\ pc = "resolve_paths"
    /\ LET r == resolve_paths(tr.cfg, environ)
       IN  IF r.ok
           THEN /\ pc' = "load_csv"
                /\ tr' = [tr EXCEPT !.data_path = r.data_path.val,
                                    !.out_dir = r.out_dir.val]
           ELSE Fail("resolve_paths", r.err)
    /\ UNCHANGED <<fs, environ, last, outdir, serveVars, args, datafs, out0>>

\* X, y = load_csv(data_path)
TrainLoadCsv ==
    /\ pc = "load_csv"
    /\ LET r == load_csv(tr.data_path, datafs)
       IN  IF r.ok THEN pc' = "split" /\ tr' = [tr EXCEPT !.table = r.table]
           ELSE Fail("load_csv", r.err)
    /\ UNCHANGED <<fs, environ, last, outdir, serveVars, args, datafs, out0>>

\* train_test_split(..., stratify=y), which raises on a class with a single
\* member; pre = build_preprocessor(X)
TrainSplit ==
    /\ pc = "split"
    /\ \/ pc' = "fit_lr" /\ tr' = tr
       \/ Fail("split", "ValueError")
    /\ UNCHANGED <<fs, environ, last, outdir, serveVars, args, datafs, out0>>

\* Mutant: the baseline is dumped as soon as it is fitted.
TrainFitLrDumpsEarly ==
    /\ pc = "fit_lr"
    /\ \/ /\ \E f1 \in F1Values : tr' = [tr EXCEPT !.f1_lr = f1]
          /\ pc' = "fit_xgb"
          /\ outdir' = OutDir(PipelineFile("lr", 1), outdir.metrics)
       \/ Fail("fit_lr", "ValueError") /\ outdir' = outdir
    /\ UNCHANGED <<fs, environ, last, serveVars, args, datafs, out0>>

\* lr.fit(X_tr, y_tr); f1_lr = f1_score(y_te, lr.predict(X_te))
TrainFitLr ==
    /\ pc = "fit_lr"
    /\ \/ /\ \E f1 \in F1Values : tr' = [tr EXCEPT !.f1_lr = f1]
          /\ pc' = "fit_xgb"
       \/ Fail("fit_lr", "ValueError")
    /\ UNCHANGED <<fs, environ, last, outdir, serveVars, args, datafs, out0>>

\* xgb.fit(X_tr, y_tr); f1_xgb = f1_score(y_te, xgb.predict(X_te))
TrainFitXgb ==
    /\ pc = "fit_xgb"
    /\ \/ /\ \E f1 \in F1Values : tr' = [tr EXCEPT !.f1_xgb = f1]
          /\ pc' = "makedirs"
       \/ Fail("fit_xgb", "ValueError")
    /\ UNCHANGED <<fs, environ, last, outdir, serveVars, args, datafs, out0>>

\* best = xgb if f1_xgb >= f1_lr else lr; os.makedirs(out_dir, exist_ok=True)
TrainMakedirs ==
    /\ pc = "makedirs"
    /\ \/ /\ pc' = "dump"
          /\ tr' = [tr EXCEPT !.best = select_best(tr.f1_lr, tr.f1_xgb)]
          /\ outdir' = [outdir EXCEPT !.exists = TRUE]
       \/ /\ pc' = "failed"
          /\ tr' = [tr EXCEPT !.best = select_best(tr.f1_lr, tr.f1_xgb),
                              !.failed_at = "makedirs", !.err = "OSError"]
          /\ outdir' = outdir
    /\ UNCHANGED <<fs, environ, last, serveVars, args, datafs, out0>>

\* joblib.dump(best, os.path.join(out_dir, 'model.joblib')): the file is
\* written whole, or the call raises before creating it or part-way.
TrainDump ==
    /\ pc = "dump"
    /\ \/ /\ pc' = "metrics" /\ tr' = tr
          /\ outdir' = [outdir EXCEPT !.model = PipelineFile(tr.best, 1)]
       \/ /\ Fail("dump", "OSError")
          /\ outdir' \in {outdir, [outdir EXCEPT !.model = PartialModelFile(1)]}
    /\ UNCHANGED <<fs, environ, last, serveVars, args, datafs, out0>>

\* with open(.../metrics.txt, 'w') as f: three f.write; then the print.
\* open raises and leaves the file alone, or a write raises after open has
\* truncated it.
TrainWriteMetrics ==
    /\ pc = "metrics"
    /\ \/ /\ pc' = "done" /\ tr' = tr
          /\ outdir' = [outdir EXCEPT !.metrics =
                 MetricsFile(format4(tr.f1_lr), format4(tr.f1_xgb),
                             best_name(tr.f1_lr, tr.f1_xgb), 1)]
       \/ /\ Fail("metrics", "OSError")
          /\ outdir' \in {outdir, [outdir EXCEPT !.metrics = PartialMetricsFile(1)]}
    /\ UNCHANGED <<fs, environ, last, serveVars, args, datafs, out0>>

\* A client invokes the endpoint with {"features": {...}} as
\* application/json: the runtime runs input_fn, predict_fn and output_fn.
InvokeEndpoint ==
    /\ req.stage \in {"idle", "responded"}
    /\ nreq < MaxRequests
    /\ \E x \in Probs :
         LET parsed == input_fn(ObjectBody(DictFeatures(x)), "application/json")
             result == predict_fn(parsed.data, model)
         IN  req' = [NoRequest("responded") EXCEPT
                       !.content_type = "application/json",
                       !.body = ObjectBody(DictFeatures(x)),
                       !.data = parsed.data, !.result = result,
                       !.response = output_fn(result, "application/json")]
    /\ nreq' = nreq + 1
    /\ UNCHANGED <<fs, environ, last, outdir, model, attached, nrej, ui, trainVars>>

PipelineDocs ==
    {Doc(Key("local"), LocalStd, SageStd, i) :
        i \in {NoInference, Inference(JNum(3)), Inference(JNum(7))}}
    \cup {Doc(Key("prod"), LocalStd, SageStd, Inference(JNum(7)))}

PipelineFiles == {Absent} \cup {ObjectFile(d) : d \in PipelineDocs}

CHANNEL_DIR == "/opt/ml/input/data/train"

ChannelListing ==
    {DirEntry(1, "txt", FALSE), DirEntry(2, "csv", TRUE), DirEntry(3, "csv", FALSE)}

\* What is on disk at the three data paths the configurations can name.
DataFs(loc, channel) ==
    [p \in {LocalStd.data_path, AltDoc.local.data_path, CHANNEL_DIR} |->
        CASE p = LocalStd.data_path -> loc
          [] p = CHANNEL_DIR        -> channel
          [] OTHER                  -> CsvFile(TRUE)]

DataScenarios ==
    {DataFs(l, Directory(ChannelListing)) : l \in {MissingPath, CsvFile(TRUE), CsvFile(FALSE)}}
    \cup {DataFs(CsvFile(TRUE), c) :
            c \in {Directory({}), Directory({DirEntry(1, "txt", TRUE)}),
                   Directory({DirEntry(1, "csv", FALSE), DirEntry(2, "csv", TRUE)})}}

StdConfigFile == ObjectFile(Doc(Key("local"), LocalStd, SageStd, Inference(JNum(3))))

StdData == DataFs(CsvFile(TRUE), Directory(ChannelListing))

\* Either the configuration varies (the file at the default location, the
\* explicit path, APP_CONFIG_PATH) over the standard data, or the data
\* varies under the standard configuration; MODE, the channel variable and
\* the output directory vary in both.
InitPipeline ==
    /\ \E m \in {Unset, SetTo("SAGEMAKER")}, c \in {Unset, SetTo(CHANNEL_DIR)} :
         \/ /\ \E f \in PipelineFiles : fs = ConfigFs(f)
            /\ \E a \in ConfigPathArgs :
                 environ = Environ(m, a, c, SetTo("/opt/ml/model"))
            /\ args \in {[config |-> cp] : cp \in ConfigPathArgs}
            /\ datafs = StdData
         \/ /\ fs = ConfigFs(StdConfigFile)
            /\ environ = Environ(m, Unset, c, SetTo("/opt/ml/model"))
            /\ args = [config |-> Unset]
            /\ datafs \in DataScenarios
    /\ outdir \in {NoOutDir, OutDir(PipelineFile("xgb", 0), OldMetrics)}
    /\ last = NoCall
    /\ ServingOff
    /\ pc = "load_config"
    /\ tr = NoRun
    /\ out0 = outdir

NextPipeline ==
    \/ TrainLoadConfig \/ TrainResolvePaths \/ TrainLoadCsv \/ TrainSplit
    \/ TrainFitLr \/ TrainFitXgb \/ TrainMakedirs \/ TrainDump \/ TrainWriteMetrics
    \/ ModelFn \/ InvokeEndpoint

SpecPipeline == InitPipeline /\ [][NextPipeline]_vars

(***************************************************************************)
(* The configuration functions on their own: SpecConfig                    *)
(*                                                                         *)
(* The initial states enumerate what is on disk and in the environment;    *)
(* each action is one call, whose arguments and result are kept in last.   *)
(***************************************************************************)

DocModes == {NoKey, Key("local"), Key("sagemaker"), Key("LOCAL"), Key("prod")}

LocalSections == {NoLocal, Local("data/projects.csv", "model_artifacts")}

\* The second section names the two platform variables the other way round.
SageSections ==
    {NoSage, Sage("SM_CHANNEL_TRAIN", "SM_MODEL_DIR"),
     Sage("SM_MODEL_DIR", "SM_CHANNEL_TRAIN")}

Inferences ==
    {NoInference, EmptyInference, ScalarInference, Inference(JNum(3)),
     Inference(JNum(7)), Inference(JStr("0.7")), Inference(JStr("high")),
     Inference(JNull)}

ConfigDocs ==
    {Doc(m, l, s, i) : m \in DocModes, l \in LocalSections,
                       s \in SageSections, i \in Inferences}

ConfigFiles == {Absent, Garbage, ArrayFile} \cup {ObjectFile(d) : d \in ConfigDocs}

ModeValues   == {Unset, SetTo(""), SetTo("local"), SetTo("SAGEMAKER"), SetTo("Prod")}
ChannelValues == {Unset, SetTo(""), SetTo("/opt/ml/input/data/train")}
ModelDirValues == {Unset, SetTo(""), SetTo("/opt/ml/model")}

InitConfig ==
    /\ \E f \in ConfigFiles : fs = ConfigFs(f)
    /\ \E m \in ModeValues, a \in ConfigPathArgs, c \in ChannelValues, d \in ModelDirValues :
         environ = Environ(m, a, c, d)
    /\ last = NoCall
    /\ outdir = NoOutDir
    /\ ServingOff
    /\ TrainingOff

\* The mappings a caller can hold: the document as written at the default
\* location, or what load_config returned.
HeldConfigs ==
    {ReadFile(fs, p).doc : p \in {q \in DOMAIN fs : fs[q].kind = "object"}}
    \cup {load_config(cp, fs, environ).cfg :
            cp \in {c \in ConfigPathArgs : load_config(c, fs, environ).ok}}

CallLoadConfig ==
    /\ \E cp \in ConfigPathArgs :
         last' = [NoCall EXCEPT !.fn = "load_config", !.config_path = cp,
                                !.load = load_config(cp, fs, environ)]
    /\ UNCHANGED <<fs, environ, outdir, serveVars, trainVars>>

CallResolvePaths ==
    /\ \E cfg \in HeldConfigs :
         last' = [NoCall EXCEPT !.fn = "resolve_paths", !.cfg = cfg,
                                !.paths = resolve_paths(cfg, environ)]
    /\ UNCHANGED <<fs, environ, outdir, serveVars, trainVars>>

CallThreshold ==
    /\ \E cfg \in HeldConfigs :
         last' = [NoCall EXCEPT !.fn = "threshold", !.cfg = cfg,
                                !.thr = threshold(cfg)]
    /\ UNCHANGED <<fs, environ, outdir, serveVars, trainVars>>

NextConfig == CallLoadConfig \/ CallResolvePaths \/ CallThreshold

SpecConfig == InitConfig /\ [][NextConfig]_vars

(***************************************************************************)
(* Claims about the configuration functions (checked under SpecConfig)     *)
(***************************************************************************)

\* The file load_config opened in the call kept in last.
LoadedFile == ReadFile(fs, ConfigPathOf(last.config_path, environ))

\* The effective mode of a document: MODE, lower-cased, when MODE is set and
\* not empty, and the document's own mode otherwise.
EffectiveMode(doc) ==
    LET override == EnvGet(environ, "MODE")
    IN  IF override.set /\ override.val # "" THEN Key(Lower(override.val))
        ELSE doc.mode

\* C1: load_config on a configuration document (a JSON object) raises
\* ConfigError (ValueError in the code) when the effective mode is missing
\* or is neither "local" nor "sagemaker", and returns a configuration, whose
\* mode is the effective mode, only when it is one of the two.
C1_LoadRejectsUnrecognizedMode ==
    (last.fn = "load_config" /\ LoadedFile.kind = "object") =>
        LET effective  == EffectiveMode(LoadedFile.doc)
            recognized == effective \in {Key("local"), Key("sagemaker")}
        IN  /\ last.load.ok <=> recognized
            /\ ~recognized => IsInstance(last.load.err, ConfigError)
            /\ last.load.ok => last.load.cfg.mode = effective

\* C1 witness: a document without "mode", no override, rejected.
C1_Witness ==
    /\ last.fn = "load_config"
    /\ LoadedFile.kind = "object"
    /\ ~LoadedFile.doc.mode.has
    /\ ~EnvGet(environ, "MODE").set
    /\ ~last.load.ok
    /\ last.load.err = "ValueError"

\* C2: in sagemaker mode resolve_paths raises EnvironmentError when either
\* of the two variables the sagemaker section names is unset or empty, and
\* otherwise returns exactly (value of the train-channel variable, value of
\* the model-dir variable).
C2_ManagedPathsComeFromEnvironment ==
    (/\ last.fn = "resolve_paths"
     /\ last.cfg.mode = Key("sagemaker")
     /\ last.cfg.sagemaker.has) =>
        LET channel == EnvGet(environ, last.cfg.sagemaker.train_channel)
            dir     == EnvGet(environ, last.cfg.sagemaker.model_dir)
            missing == \E v \in {channel, dir} : ~v.set \/ v.val = ""
        IN  IF missing
            THEN ~last.paths.ok /\ IsInstance(last.paths.err, "EnvironmentError")
            ELSE /\ last.paths.ok
                 /\ last.paths.data_path = channel
                 /\ last.paths.out_dir = dir

\* C2 witness: the channel variable holds a path, the model-dir variable is
\* set but empty, and the call raised.
C2_Witness ==
    /\ last.fn = "resolve_paths"
    /\ last.cfg.mode = Key("sagemaker")
    /\ last.cfg.sagemaker = Sage("SM_CHANNEL_TRAIN", "SM_MODEL_DIR")
    /\ Truthy(environ["SM_CHANNEL_TRAIN"])
    /\ environ["SM_MODEL_DIR"] = SetTo("")
    /\ ~last.paths.ok

ThresholdAbsent(cfg) ==
    \/ cfg.inference.kind = "missing"
    \/ cfg.inference.kind = "object" /\ ~cfg.inference.has_threshold

\* A threshold that is no number: null, a string that is no numeral, or an
\* "inference" entry that is no mapping.
ThresholdMalformed(cfg) ==
    \/ cfg.inference.kind = "scalar"
    \/ /\ cfg.inference.kind = "object"
       /\ cfg.inference.has_threshold
       /\ cfg.inference.threshold \in {JNull, JStr("high")}

\* C6 as claimed: threshold(cfg) never fails, and returns 0.5 whenever the
\* threshold is absent or malformed.
C6_ThresholdNeverFails ==
    (last.fn = "threshold") =>
        /\ last.thr.ok
        /\ (ThresholdAbsent(last.cfg) \/ ThresholdMalformed(last.cfg))
              => last.thr.v = DefaultThreshold

\* C6 amended: threshold(cfg) returns 0.5 when the inference section or its
\* threshold is absent and the configured number when there is one (a
\* numeral in a string is converted); for a malformed threshold it raises
\* ValueError, TypeError or AttributeError and returns nothing.
C6_ThresholdDefaultsOnlyWhenAbsent ==
    (last.fn = "threshold") =>
        LET inf == last.cfg.inference
        IN  /\ ThresholdAbsent(last.cfg) =>
                 last.thr.ok /\ last.thr.v = DefaultThreshold
            /\ (inf.kind = "object" /\ inf.has_threshold /\ inf.threshold.kind = "num") =>
                 last.thr.ok /\ last.thr.v = inf.threshold.n
            /\ (inf.kind = "object" /\ inf.has_threshold /\ inf.threshold = JStr("0.7")) =>
                 last.thr.ok /\ last.thr.v = 7
            /\ ThresholdMalformed(last.cfg) =>
                 /\ ~last.thr.ok
                 /\ last.thr.err \in {"ValueError", "TypeError", "AttributeError"}

\* C6 witness: the threshold is the string "high" and the call raised.
C6_Witness ==
    /\ last.fn = "threshold"
    /\ last.cfg.inference = Inference(JStr("high"))
    /\ ~last.thr.ok
    /\ last.thr.err = "ValueError"

(***************************************************************************)
(* Claims about the serving process and the dashboard (checked under       *)
(* SpecServe)                                                              *)
(***************************************************************************)

\* C3: for every configured threshold and every probability, the label the
\* dashboard shows equals the label predict_fn returns for that probability
\* with the model loaded by model_fn under the same configuration.
C3_DashboardLabelIsEndpointLabel ==
    (ui.stage = "shown") =>
        LET m == model_fn(outdir, fs, environ)
        IN  m.ok => ui.pred = predict_fn(DataFrame(ui.proba), m.model).prediction

\* C4: predict_fn returns prediction 1 exactly when the probability is at
\* least the threshold attached to the model (the boundary included) and 0
\* otherwise, together with that probability and that threshold.
C4_PredictIsInclusiveAtThreshold ==
    (req.stage = "predicted") =>
        /\ model.has_threshold
        /\ req.result.proba = req.data.x
        /\ req.result.threshold = model.threshold
        /\ req.result.prediction \in {0, 1}
        /\ req.result.prediction = 1 <=> req.data.x >= model.threshold

\* C4 witness: a probability equal to the threshold is labelled 1.
C4_Witness ==
    /\ req.stage = "predicted"
    /\ req.data.x = model.threshold
    /\ req.result.prediction = 1

\* The file the serving process reads its configuration from.
ServingConfigFile == ReadFile(fs, ConfigPathOf(Unset, environ))

\* Configuration loading fails: no file, no JSON, no mapping, or an
\* effective mode that is not recognized.
ServingConfigFails ==
    \/ ServingConfigFile.kind # "object"
    \/ EffectiveMode(ServingConfigFile.doc) \notin {Key("local"), Key("sagemaker")}

\* C7: when model.joblib deserializes, model_fn returns a model with a
\* threshold attached: threshold(cfg) when the configuration loaded (0.5
\* when that call raised on a malformed value), and 0.5 when loading the
\* configuration failed for any reason.
C7_ModelFnSurvivesConfigFailure ==
    (req.stage # "down" /\ joblib_load(outdir).ok) =>
        LET t == threshold(ServingConfigFile.doc)
        IN  /\ req.stage # "load_failed"
            /\ model.loaded
            /\ model.has_threshold
            /\ ServingConfigFails => model.threshold = 5
            /\ (~ServingConfigFails /\ t.ok) => model.threshold = t.v
            /\ (~ServingConfigFails /\ ~t.ok) => model.threshold = 5

\* C7 witness: the configuration file is no JSON and the model was loaded
\* with 0.5.
C7_Witness ==
    /\ model.loaded
    /\ ServingConfigFile.kind = "garbage"
    /\ model.has_threshold
    /\ model.threshold = 5

\* A payload that is no JSON, no JSON object, has no "features", or whose
\* "features" is neither a mapping nor a list.
BodyMalformed(body) ==
    \/ body.kind \in {"garbage", "array", "scalar"}
    \/ body.kind = "object" /\ body.features.kind \in {"missing", "scalar"}

\* C8: input_fn raises UnsupportedRequestError (ValueError in the code), and
\* no other kind of error, for every content type other than
\* application/json and for every malformed application/json payload.
C8_BadRequestsRaiseUnsupported ==
    (/\ req.stage \in {"parsed", "rejected"}
     /\ req.content_type # "application/json" \/ BodyMalformed(req.body)) =>
        /\ req.stage = "rejected"
        /\ IsInstance(req.err, UnsupportedRequestError)

\* C9: after any number of rejected requests a valid request is answered
\* from the model exactly as model_fn returned it (the rejections changed
\* neither the cached model nor its threshold).
C9_RejectionsLeaveModelIntact ==
    (req.stage = "predicted" /\ nrej > 0) =>
        /\ model = attached
        /\ req.result = predict_fn(req.data, attached)

\* C9 witness: two requests were rejected and the third was predicted.
C9_Witness ==
    /\ req.stage = "predicted"
    /\ nrej = 2
    /\ req.result.threshold = attached.threshold
    /\ req.result.prediction = 1

(***************************************************************************)
(* Claims about a training run and the serving that follows it (checked    *)
(* under SpecPipeline)                                                     *)
(***************************************************************************)

\* The run was configured with a numeric inference.threshold.
TrainedWithThreshold ==
    /\ tr.cfg.inference.kind = "object"
    /\ tr.cfg.inference.has_threshold
    /\ tr.cfg.inference.threshold.kind = "num"

\* The model the serving process holds is the artifact the finished run
\* wrote.
ServingTrainedArtifact == pc = "done" /\ model.loaded /\ model.run = 1

\* Every answer so far carries threshold t, with a probability equal to t
\* labelled 1 and a smaller one labelled 0.
ClassifiesWith(t) ==
    /\ model.has_threshold /\ model.threshold = t
    /\ (req.stage = "responded") =>
          /\ req.response.threshold = t
          /\ req.data.x = t => req.response.prediction = 1
          /\ req.data.x < t => req.response.prediction = 0

\* C5 as claimed: after a run whose configuration has inference.threshold
\* t, the artifact model_fn loads classifies with exactly t, also when the
\* configuration was given to the run by an explicit path.
C5_ThresholdRoundTrip ==
    (ServingTrainedArtifact /\ TrainedWithThreshold) =>
        ClassifiesWith(tr.cfg.inference.threshold.n)

\* C5 amended: after a run whose configuration has inference.threshold t,
\* the artifact model_fn loads classifies with exactly t when model_fn's own
\* load_config() (APP_CONFIG_PATH, else the default location) loads the
\* document the run was configured with.
C5_RoundTripThroughServingConfig ==
    (/\ ServingTrainedArtifact
     /\ TrainedWithThreshold
     /\ ConfigPathOf(args.config, environ) = ConfigPathOf(Unset, environ)
     /\ ~ServingConfigFails) =>
        ClassifiesWith(tr.cfg.inference.threshold.n)

\* C5 witness: configured with 0.7 at the default location, trained, loaded,
\* and a probability of exactly 0.7 answered with prediction 1, threshold 0.7.
C5_Witness ==
    /\ ServingTrainedArtifact
    /\ args.config = Unset
    /\ tr.cfg.inference = Inference(JNum(7))
    /\ req.stage = "responded"
    /\ req.data.x = 7
    /\ req.response.prediction = 1
    /\ req.response.threshold = 7

BeforePersistence ==
    {"load_config", "resolve_paths", "load_csv", "split", "fit_lr", "fit_xgb", "makedirs"}

NewModelWithoutReport ==
    /\ outdir.model.kind = "pipeline" /\ outdir.model.run = 1
    /\ ~(outdir.metrics.kind = "report" /\ outdir.metrics.run = 1)

\* C10 as claimed: nothing is written to the output directory until both
\* classifiers are fitted and scored, and a run that fails at any step, the
\* persistence step included, never leaves a new model artifact without
\* its metrics report.
C10_NoPartialResultOnFailure ==
    /\ pc \in BeforePersistence => outdir = out0
    /\ pc = "failed" => ~NewModelWithoutReport

\* C10 amended: nothing is written to the output directory until both
\* classifiers are fitted and scored; a run that fails at any step before
\* the two files are written (configuration, paths, data, label, split,
\* fitting, scoring, creating the directory) leaves the output directory
\* as it was, and a run that ends normally leaves both files of this run.
C10_NothingWrittenBeforePersistence ==
    /\ pc \in BeforePersistence => outdir = out0
    /\ (pc = "failed" /\ tr.failed_at \notin {"dump", "metrics"}) => outdir = out0
    /\ pc = "done" =>
          /\ outdir.model = PipelineFile(tr.best, 1)
          /\ outdir.metrics.kind = "report" /\ outdir.metrics.run = 1

\* C10 witness: the ensemble's fit raised after the baseline was scored, and
\* the earlier run's files are untouched.
C10_Witness ==
    /\ pc = "failed"
    /\ tr.failed_at = "fit_xgb"
    /\ tr.f1_lr \in F1Values
    /\ out0 = OutDir(PipelineFile("xgb", 0), OldMetrics)
    /\ outdir = out0

\* The run has passed "best = xgb if f1_xgb >= f1_lr else lr".
Selected ==
    \/ pc \in {"dump", "metrics", "done"}
    \/ pc = "failed" /\ tr.failed_at \in {"makedirs", "dump", "metrics"}

\* C11: the run selects the classifier with the strictly higher held-out
\* F1, and the ensemble when the two scores are equal: the baseline is
\* selected only when its F1 is strictly greater; the selected pipeline is
\* the one joblib.dump writes.
C11_TieFavoursEnsemble ==
    Selected =>
        /\ tr.f1_xgb > tr.f1_lr => tr.best = "xgb"
        /\ tr.f1_xgb = tr.f1_lr => tr.best = "xgb"
        /\ tr.best = "lr" <=> tr.f1_lr > tr.f1_xgb
        /\ pc \in {"metrics", "done"} => outdir.model = PipelineFile(tr.best, 1)

\* C11 witness: equal scores, and the ensemble is the artifact on disk.
C11_Witness ==
    /\ pc = "done"
    /\ tr.f1_xgb = tr.f1_lr
    /\ tr.best = "xgb"
    /\ outdir.model = PipelineFile("xgb", 1)

\* load_csv has been called and has returned or raised.
CsvLoaded ==
    \/ pc \in {"split", "fit_lr", "fit_xgb", "makedirs", "dump", "metrics", "done"}
    \/ pc = "failed" /\ tr.failed_at \notin {"load_config", "resolve_paths"}

CsvReturned == CsvLoaded /\ ~(pc = "failed" /\ tr.failed_at = "load_csv")

\* What is on disk at the resolved data path, and the files of a directory
\* whose names end in .csv.
ResolvedEntry == DataAt(datafs, tr.data_path)
TabularFiles  == {f \in ResolvedEntry.files : f.ext = "csv"}

FileWasRead ==
    \/ ResolvedEntry.kind = "file"
    \/ ResolvedEntry.kind = "dir" /\ TabularFiles # {}

FileRead ==
    IF ResolvedEntry.kind = "dir"
    THEN CHOOSE f \in TabularFiles : \A g \in TabularFiles : f.rank <= g.rank
    ELSE ResolvedEntry

\* C13: when the table read has no is_late column the run fails with
\* SchemaError (KeyError) in load_csv, before the split and the fits and
\* with the output directory untouched; a run that got past load_csv holds
\* a table with the label.
C13_MissingLabelStopsTheRun ==
    /\ (CsvLoaded /\ FileWasRead /\ ~FileRead.has_label) =>
          /\ pc = "failed" /\ tr.failed_at = "load_csv"
          /\ IsInstance(tr.err, SchemaError)
          /\ tr.table = NoTable
          /\ tr.f1_lr = NoRun.f1_lr /\ tr.f1_xgb = NoRun.f1_xgb
          /\ outdir = out0
    /\ CsvReturned => tr.table.has_label

\* C13 witness: the local CSV file lacks is_late; load_csv raised KeyError
\* and the earlier run's files are still there.
C13_Witness ==
    /\ pc = "failed"
    /\ tr.failed_at = "load_csv"
    /\ tr.err = "KeyError"
    /\ ResolvedEntry = CsvFile(FALSE)
    /\ outdir = OutDir(PipelineFile("xgb", 0), OldMetrics)

(***************************************************************************)
(* Further claims about the configuration functions (checked under         *)
(* SpecConfig)                                                             *)
(***************************************************************************)

\* C14: when MODE is set and not empty, load_config replaces the document's
\* mode with the lower-cased MODE before validating it: the returned
\* configuration is the document with that mode, whatever the document
\* said, and a MODE that is neither literal makes the call raise ConfigError
\* even when the document's own mode is valid; when MODE is unset or empty
\* the document is returned unchanged and validated on its own mode.
C14_ModeOverrideIsLowerCased ==
    (last.fn = "load_config" /\ LoadedFile.kind = "object") =>
        LET override == EnvGet(environ, "MODE")
            doc      == LoadedFile.doc
        IN  IF override.set /\ override.val # ""
            THEN /\ last.load.ok <=> Lower(override.val) \in {"local", "sagemaker"}
                 /\ last.load.ok =>
                       last.load.cfg = [doc EXCEPT !.mode = Key(Lower(override.val))]
                 /\ ~last.load.ok => IsInstance(last.load.err, ConfigError)
                 /\ override.val = "SAGEMAKER" =>
                       last.load.ok /\ last.load.cfg.mode = Key("sagemaker")
                 /\ override.val = "Prod" => ~last.load.ok
            ELSE /\ last.load.ok <=> doc.mode \in {Key("local"), Key("sagemaker")}
                 /\ last.load.ok => last.load.cfg = doc

\* C14 witness: the document says local, MODE is SAGEMAKER, and the
\* configuration returned says sagemaker.
C14_Witness ==
    /\ last.fn = "load_config"
    /\ LoadedFile.kind = "object"
    /\ LoadedFile.doc.mode = Key("local")
    /\ EnvGet(environ, "MODE") = SetTo("SAGEMAKER")
    /\ last.load.ok
    /\ last.load.cfg.mode = Key("sagemaker")

\* C15: in local mode resolve_paths returns exactly the data_path and
\* out_dir written in the local section, whatever the values (set, unset,
\* empty) of the variables the sagemaker section names, and whether or not
\* there is a sagemaker section; it raises only when the local section is
\* missing.
C15_LocalPathsAreTheDocuments ==
    (last.fn = "resolve_paths" /\ last.cfg.mode = Key("local")) =>
        /\ last.paths.ok <=> last.cfg.local.has
        /\ last.paths.ok =>
              /\ last.paths.data_path = SetTo(last.cfg.local.data_path)
              /\ last.paths.out_dir = SetTo(last.cfg.local.out_dir)
        /\ ~last.paths.ok => last.paths.err = "KeyError"

\* C15 witness: local mode, both platform variables unset, and the paths of
\* the local section returned.
C15_Witness ==
    /\ last.fn = "resolve_paths"
    /\ last.cfg.mode = Key("local")
    /\ last.cfg.sagemaker.has
    /\ ~EnvGet(environ, last.cfg.sagemaker.train_channel).set
    /\ ~EnvGet(environ, last.cfg.sagemaker.model_dir).set
    /\ last.paths.ok
    /\ last.paths.data_path = SetTo("data/projects.csv")
    /\ last.paths.out_dir = SetTo("model_artifacts")

C17_ModelImmutableAfterLoad ==
    model.loaded =>
        /\ model.clf = attached.clf /\ model.run = attached.run
        /\ model.has_threshold /\ model.threshold = attached.threshold
        /\ req.stage \in {"predicted", "responded"} =>
              req.result.threshold = attached.threshold
        /\ req.stage = "responded" =>
              req.response.threshold = attached.threshold

\* C17 witness: the last of the requests, after a rejected one, is answered
\* with the threshold 0.7 that model_fn attached.
C17_Witness ==
    /\ model.loaded
    /\ attached.threshold = 7
    /\ nreq = MaxRequests
    /\ nrej > 0
    /\ req.stage = "responded"
    /\ req.response.threshold = 7
    /\ model = attached

(***************************************************************************)
(* Further claims about a training run (checked under SpecPipeline)        *)
(***************************************************************************)

\* C18: after a run that ended normally, best= in metrics.txt names the
\* classifier of the pipeline in model.joblib of the same directory
\* (xgboost exactly for the ensemble, logreg exactly for the baseline), and
\* both files are the ones this run wrote, whatever was there before.
C18_ReportNamesPersistedClassifier ==
    pc = "done" =>
        /\ outdir.exists
        /\ outdir.model.kind = "pipeline" /\ outdir.model.run = 1
        /\ outdir.metrics.kind = "report" /\ outdir.metrics.run = 1
        /\ outdir.metrics.best = "xgboost" <=> outdir.model.clf = "xgb"
        /\ outdir.metrics.best = "logreg" <=> outdir.model.clf = "lr"
        /\ outdir.metrics.best \in {"xgboost", "logreg"}

\* C18 witness: the directory held an earlier run's ensemble and report;
\* this run wrote the baseline and a report with best=logreg.
C18_Witness ==
    /\ pc = "done"
    /\ out0 = OutDir(PipelineFile("xgb", 0), OldMetrics)
    /\ outdir.model = PipelineFile("lr", 1)
    /\ outdir.metrics.best = "logreg"
    /\ outdir.metrics.run = 1

====
